---- MODULE Spec2Model ----
(***************************************************************************)
(* Model of plod's polling service (services/poller.ts), the command       *)
(* executor (services/executor.ts) and the Claude worker                   *)
(* (services/claude-worker.ts).                                            *)
(*                                                                         *)
(* Text is modelled as a sequence of one-character strings, so that        *)
(* trimming, case folding and word-boundary matching are computed the way  *)
(* the code computes them.  The clock is in milliseconds since startTime.  *)
(***************************************************************************)
EXTENDS Integers, Sequences, FiniteSets, TLC

VARIABLES config, pc, now, iterations, workIterationCount, status,
          failureDetails, outcome, trace, input, parsed

vars == <<config, pc, now, iterations, workIterationCount, status,
          failureDetails, outcome, trace, input, parsed>>

(***************************************************************************)
(* Bounds of the model                                                     *)
(***************************************************************************)
MaxWorkIter == 2
MaxPollMinutes == 1
MaxWords == 2
MaxArgs == 3
IntervalChoices == {15, 30}
AgentDurationsMs == {0, 45000}

(***************************************************************************)
(* Text helpers                                                            *)
(***************************************************************************)
UpperChars == <<"A","B","C","D","E","F","G","H","I","J","K","L","M",
                "N","O","P","Q","R","S","T","U","V","W","X","Y","Z">>
LowerChars == <<"a","b","c","d","e","f","g","h","i","j","k","l","m",
                "n","o","p","q","r","s","t","u","v","w","x","y","z">>
DigitChars == {"0","1","2","3","4","5","6","7","8","9"}
WhiteChars == {" ", "\n", "\t", "\r"}

Range(s) == {s[i] : i \in DOMAIN s}

IsWordChar(c) == c \in Range(UpperChars) \cup Range(LowerChars) \cup DigitChars \cup {"_"}

\* faulty variant of ToLowerChar: no case folding
ToLowerChar_identity(c) == c

ToLowerChar(c) ==
    IF \E i \in DOMAIN UpperChars : UpperChars[i] = c
    THEN LowerChars[CHOOSE i \in DOMAIN UpperChars : UpperChars[i] = c]
    ELSE c

ToLowerCase(s) == [i \in DOMAIN s |-> ToLowerChar(s[i])]

\* String.prototype.trim: strip leading and trailing white space
Trim(s) ==
    IF \A i \in DOMAIN s : s[i] \in WhiteChars THEN <<>>
    ELSE LET first == CHOOSE i \in DOMAIN s :
                          /\ s[i] \notin WhiteChars
                          /\ \A j \in 1..(i-1) : s[j] \in WhiteChars
             last  == CHOOSE i \in DOMAIN s :
                          /\ s[i] \notin WhiteChars
                          /\ \A j \in (i+1)..Len(s) : s[j] \in WhiteChars
         IN  SubSeq(s, first, last)

\* faulty variant of WordBoundary: the pattern has no \b
WordBoundary_none(s, p) == TRUE

\* the regular expression assertion \b at the gap before position p (1..Len+1)
WordBoundary(s, p) ==
    LET before == IF p > 1 THEN IsWordChar(s[p-1]) ELSE FALSE
        after  == IF p <= Len(s) THEN IsWordChar(s[p]) ELSE FALSE
    IN  before # after

\* /\b(w)\b/.test(s) for a literal word w
MatchesWord(s, w) ==
    \E i \in 1..(Len(s) - Len(w) + 1) :
        /\ SubSeq(s, i, i + Len(w) - 1) = w
        /\ WordBoundary(s, i)
        /\ WordBoundary(s, i + Len(w))


(***************************************************************************)
(* parseBuildStatus (poller.ts)                                            *)
(***************************************************************************)
SuccessWords == { <<"s","u","c","c","e","s","s">>,
                  <<"s","u","c","c","e","s","s","f","u","l">>,
                  <<"p","a","s","s","e","d">>, <<"p","a","s","s">>, <<"o","k">> }

\* fail(ure|ed)?|error|failed|broken
FailureWords == { <<"f","a","i","l">>, <<"f","a","i","l","u","r","e">>,
                  <<"f","a","i","l","e","d">>, <<"e","r","r","o","r">>,
                  <<"b","r","o","k","e","n">> }

PendingWords == { <<"p","e","n","d","i","n","g">>, <<"r","u","n","n","i","n","g">>,
                  <<"b","u","i","l","d","i","n","g">>, <<"q","u","e","u","e","d">> }

W_in == <<"i","n">>
W_progress == <<"p","r","o","g","r","e","s","s">>

\* /\b...in.?progress...\b/ : "in", at most one character other than a line
\* terminator, "progress"
MatchesInProgress(s) ==
    \/ MatchesWord(s, W_in \o W_progress)
    \/ \E i \in 1..(Len(s) - Len(W_in) - Len(W_progress)) :
        /\ SubSeq(s, i, i + 1) = W_in
        /\ s[i + 2] \notin {"\n", "\r"}
        /\ SubSeq(s, i + 3, i + 2 + Len(W_progress)) = W_progress
        /\ WordBoundary(s, i)
        /\ WordBoundary(s, i + 3 + Len(W_progress))

\* faulty variant of parseBuildStatus: unclear text has no default
parseBuildStatus_noDefault(output) ==
    LET normalized == Trim(ToLowerCase(output))
    IN  IF \E w \in SuccessWords : MatchesWord(normalized, w) THEN "success"
        ELSE IF \E w \in FailureWords : MatchesWord(normalized, w) THEN "failure"
        ELSE IF (\E w \in PendingWords : MatchesWord(normalized, w))
                \/ MatchesInProgress(normalized) THEN "pending"
        ELSE "unknown"

parseBuildStatus(output) ==
    LET normalized == Trim(ToLowerCase(output))
    IN  IF \E w \in SuccessWords : MatchesWord(normalized, w) THEN "success"
        ELSE IF \E w \in FailureWords : MatchesWord(normalized, w) THEN "failure"
        ELSE IF (\E w \in PendingWords : MatchesWord(normalized, w))
                \/ MatchesInProgress(normalized) THEN "pending"
        ELSE "pending"

(***************************************************************************)
(* Executor (executor.ts)                                                  *)
(***************************************************************************)
DEFAULT_COMMAND_TIMEOUT_MINUTES == 5

\* the value of a property an object does not have
Undefined == <<"undefined">>

T_timedOut == <<"C","o","m","m","a","n","d"," ","t","i","m","e","d"," ","o","u","t"," ","a","f","t","e","r"," ","5"," ","m","i","n","u","t","e","s">>

\* A process behaviour is what the spawned shell does: it exits with exitCode
\* having written stdout and stderr, or it does not exit within the timeout.
Proc(code, out, err) == [exitCode |-> code, stdout |-> out, stderr |-> err, timedOut |-> FALSE]
ProcHangs == [exitCode |-> 0, stdout |-> <<>>, stderr |-> <<>>, timedOut |-> TRUE]

\* new CommandExecutionError(command, exitCode, stderr): it has no stdout field
CommandExecutionError(command, exitCode, stderr) ==
    [_tag |-> "CommandExecutionError", command |-> command,
     exitCode |-> exitCode, stderr |-> stderr]

\* faulty variant of execute: the output is returned as captured
execute_untrimmed(command, proc) ==
    IF proc.timedOut
    THEN [ok |-> FALSE,
          error |-> CommandExecutionError(command, -1, T_timedOut)]
    ELSE IF proc.exitCode # 0
    THEN [ok |-> FALSE,
          error |-> CommandExecutionError(command, proc.exitCode, proc.stderr)]
    ELSE [ok |-> TRUE,
          value |-> [stdout |-> proc.stdout, stderr |-> proc.stderr,
                     exitCode |-> proc.exitCode]]

\* execute(command): the Exit of the effect, for a given process behaviour
execute(command, proc) ==
    IF proc.timedOut
    THEN [ok |-> FALSE,
          error |-> CommandExecutionError(command, -1, T_timedOut)]
    ELSE IF proc.exitCode # 0
    THEN [ok |-> FALSE,
          error |-> CommandExecutionError(command, proc.exitCode, proc.stderr)]
    ELSE [ok |-> TRUE,
          value |-> [stdout |-> Trim(proc.stdout), stderr |-> Trim(proc.stderr),
                     exitCode |-> proc.exitCode]]

\* wall-clock time an execute call takes: a hanging process is cut off by the
\* timeout, any other is taken to answer at once
executeDurationMs(proc) ==
    IF proc.timedOut THEN DEFAULT_COMMAND_TIMEOUT_MINUTES * 60 * 1000 ELSE 0

\* args.join(' ')
RECURSIVE JoinArgs(_)
JoinArgs(args) ==
    IF args = <<>> THEN <<>>
    ELSE IF Len(args) = 1 THEN args[1]
    ELSE args[1] \o <<" ">> \o JoinArgs(Tail(args))

\* executeWithArgs(command, args): as execute, the process being the command
\* itself; the error names `${command} ${args.join(' ')}`
executeWithArgs(command, args, proc) ==
    execute(command \o <<" ">> \o JoinArgs(args), proc)

\* Effect.acquireUseRelease around the spawned process.
\* acquire: Bun.spawn starts the process
acquire(proc) == [running |-> TRUE, killed |-> FALSE]

\* use: await proc.exited; a process that hangs is still running when the
\* timeout interrupts the wait
use(child, proc) ==
    IF proc.timedOut THEN child ELSE [child EXCEPT !.running = FALSE]

\* proc.kill()
kill(child) == [running |-> FALSE, killed |-> TRUE]

\* faulty variant of release: nothing is cleaned up
release_noKill(child) == child

\* release: if (!proc.killed) proc.kill(); it runs on every exit of use
release(child) == IF ~child.killed THEN kill(child) ELSE child

\* the spawned process once the call has completed
spawnedAfter(proc) == release(use(acquire(proc), proc))

\* JavaScript property read obj.name
Get(obj, name) == IF name \in DOMAIN obj THEN obj[name] ELSE Undefined

\* JavaScript truthiness of a string-or-undefined value
Truthy(v) == v # Undefined /\ v # <<>>

\* a || b
OrElse(a, b) == IF Truthy(a) THEN a ELSE b

(***************************************************************************)
(* Claude worker (claude-worker.ts)                                        *)
(***************************************************************************)
DEFAULT_WORK_TIMEOUT_MINUTES == 10

ClaudeWorkerError(message) == [_tag |-> "ClaudeWorkerError", message |-> message]

\* Array.prototype.indexOf, 0-based, -1 when absent
indexOf(args, x) ==
    IF \E i \in DOMAIN args : args[i] = x
    THEN (CHOOSE i \in DOMAIN args : args[i] = x /\ \A j \in 1..(i-1) : args[j] # x) - 1
    ELSE -1

\* faulty variant of ValidWorkConfig: off by one, "-p" may be the last argument
ValidWorkConfig_offByOne(args) ==
    LET promptArgIndex == indexOf(args, "-p")
    IN  ~(promptArgIndex = -1 \/ promptArgIndex >= Len(args))

ValidWorkConfig(args) ==
    LET promptArgIndex == indexOf(args, "-p")
    IN  ~(promptArgIndex = -1 \/ promptArgIndex >= Len(args) - 1)

\* A session behaviour is what the SDK query does once started.
SessionBehaviours == {"completes", "throws", "hangs"}

\* faulty variant of work: the result reports what the agent achieved
work_reportsFailure(args, details, session) ==
    IF ~ValidWorkConfig(args)
    THEN [ok |-> FALSE, sessionStarted |-> FALSE, sessionRunning |-> FALSE,
          error |-> ClaudeWorkerError("Failed to run Claude agent")]
    ELSE IF session = "throws"
    THEN [ok |-> FALSE, sessionStarted |-> TRUE, sessionRunning |-> FALSE,
          error |-> ClaudeWorkerError("Failed to run Claude agent")]
    ELSE IF session = "hangs"
    THEN [ok |-> FALSE, sessionStarted |-> TRUE, sessionRunning |-> TRUE,
          error |-> ClaudeWorkerError("Claude agent timed out")]
    ELSE [ok |-> TRUE, sessionStarted |-> TRUE, sessionRunning |-> FALSE,
          value |-> [success |-> details = <<>>, output |-> <<"f","i","x","e","d">>]]

\* work(workConfig, failureDetails): the Exit of the effect; sessionStarted
\* tells whether query() was reached, sessionRunning whether the session is
\* still running once work has ended.  The function given to tryPromise takes
\* no AbortSignal and query() is given none, and work registers no finalizer:
\* the timeout interrupts the waiting fiber only, the for-await loop over the
\* session goes on.
work(args, details, session) ==
    IF ~ValidWorkConfig(args)
    THEN [ok |-> FALSE, sessionStarted |-> FALSE, sessionRunning |-> FALSE,
          error |-> ClaudeWorkerError("Failed to run Claude agent")]
    ELSE IF session = "throws"
    THEN [ok |-> FALSE, sessionStarted |-> TRUE, sessionRunning |-> FALSE,
          error |-> ClaudeWorkerError("Failed to run Claude agent")]
    ELSE IF session = "hangs"
    THEN [ok |-> FALSE, sessionStarted |-> TRUE, sessionRunning |-> TRUE,
          error |-> ClaudeWorkerError("Claude agent timed out")]
    ELSE [ok |-> TRUE, sessionStarted |-> TRUE, sessionRunning |-> FALSE,
          value |-> [success |-> TRUE, output |-> <<"f","i","x","e","d">>]]

(***************************************************************************)
(* Behaviours of the external programs                                     *)
(***************************************************************************)
T_ok == <<"o","k">>
T_FAILED == <<"F","A","I","L","E","D">>
T_running == <<"r","u","n","n","i","n","g">>
T_boom == <<"b","o","o","m">>
T_out == <<"E","1","\n">>
T_err == <<"e","2","\n">>
T_dirty == <<" ","M"," ","f","\n">>
T_blank == <<"\n">>

StatusProcs == { Proc(0, T_ok, <<>>), Proc(0, T_FAILED, <<>>), Proc(0, T_running, <<>>),
                 Proc(0, <<>>, <<>>), Proc(1, <<>>, T_boom), ProcHangs }

FailuresProcs == { Proc(0, T_out, <<>>), Proc(0, <<>>, <<>>),
                   Proc(1, T_out, <<>>), Proc(1, <<>>, T_err), Proc(1, T_out, T_err),
                   Proc(1, <<>>, <<>>), ProcHangs }

GitStatusProcs == { Proc(0, <<>>, <<>>), Proc(0, T_blank, <<>>), Proc(0, T_dirty, <<>>),
                    Proc(128, <<>>, T_boom) }

PublishProcs == { Proc(0, T_ok, <<>>), Proc(1, <<>>, T_boom) }

WorkArgsChoices == { <<"-p", "fix the build">>, <<"-p">> }

Configs == [ intervalSeconds : IntervalChoices,
             maxPollTimeMinutes : 1..MaxPollMinutes,
             maxWorkIterations : 1..MaxWorkIter,
             workArgs : WorkArgsChoices ]

(***************************************************************************)
(* Configuration service (config.ts) and the CLI start action (cli)        *)
(***************************************************************************)
\* The value of one polling field in the file: absent, a string, or the
\* number n (n + 1/2 when half).
JAbsent == [t |-> "absent", n |-> 0, half |-> FALSE]
JString == [t |-> "string", n |-> 0, half |-> FALSE]
JNumber(n, half) == [t |-> "number", n |-> n, half |-> half]

PollingKeys == {"intervalSeconds", "maxPollTimeMinutes", "maxWorkIterations"}
CommandKeys == {"publish", "checkBuildStatus", "checkBuildFailures"}

PollingFieldValues ==
    { JAbsent, JString, JNumber(30, FALSE), JNumber(0, FALSE),
      JNumber(-30, FALSE), JNumber(1, TRUE) }

\* the polling member of the file: absent, null, a number, a string, an
\* array, or an object with some of the three fields
NoFields == [k \in PollingKeys |-> JAbsent]
PollingValues ==
    { [t |-> ty, fields |-> NoFields] :
          ty \in {"absent", "null", "number", "string", "array"} }
    \cup { [t |-> "object", fields |-> f] : f \in [PollingKeys -> PollingFieldValues] }

\* the commands and work members: per field, what the file holds
CommandsValues == [CommandKeys -> {"absent", "string", "number"}]
WorkValues == [command : {"absent", "string", "number"},
               args : {"absent", "strings", "number"}]

NoCommands == [k \in CommandKeys |-> "absent"]
NoWork == [command |-> "absent", args |-> "absent"]
NoPolling == [t |-> "absent", fields |-> NoFields]

\* the content of the file: text that is no JSON ("invalid"), or a JSON value
JsonContents ==
    { [t |-> ty, commands |-> NoCommands, work |-> NoWork, polling |-> NoPolling] :
          ty \in {"invalid", "null", "number", "string", "array"} }
    \cup { [t |-> "object", commands |-> c, work |-> w, polling |-> po] :
              c \in CommandsValues, w \in WorkValues, po \in PollingValues }

File(stat, readable, json) == [stat |-> stat, readable |-> readable, json |-> json]

NoJson == [t |-> "invalid", commands |-> NoCommands, work |-> NoWork,
           polling |-> NoPolling]

\* what loadFrom can find at the configuration path
ConfigFiles ==
    { File("error", FALSE, NoJson), File("absent", FALSE, NoJson),
      File("present", FALSE, NoJson) }
    \cup { File("present", TRUE, j) : j \in JsonContents }

FullCommands == [k \in CommandKeys |-> "string"]
FullWork == [command |-> "string", args |-> "strings"]
JsonOf(ty) == [t |-> ty, commands |-> NoCommands, work |-> NoWork, polling |-> NoPolling]

\* the files the CLI is started with in the model of a run
FileStates ==
    { File("error", FALSE, NoJson), File("absent", FALSE, NoJson),
      File("present", FALSE, NoJson), File("present", TRUE, NoJson),
      File("present", TRUE, JsonOf("null")),
      File("present", TRUE, [t |-> "object", commands |-> NoCommands,
                             work |-> FullWork, polling |-> NoPolling]),
      File("present", TRUE, [t |-> "object", commands |-> FullCommands,
                             work |-> FullWork, polling |-> NoPolling]) }

ConfigError(tag, path) == [_tag |-> tag, path |-> path]

DefaultPolling ==
    [k \in PollingKeys |->
        IF k = "intervalSeconds" THEN JNumber(10, FALSE)
        ELSE IF k = "maxPollTimeMinutes" THEN JNumber(30, FALSE)
        ELSE JNumber(10, FALSE)]

\* polling: { ...defaults, ...(parsedObj.polling || {}) }.  Only an object
\* has own properties with these names: a number or a boolean spreads to
\* nothing and a string or an array spreads to index keys, which the schema
\* ignores.
pollingWithDefaults(json) ==
    [k \in PollingKeys |->
        IF json.t = "object" /\ json.polling.t = "object"
              /\ json.polling.fields[k].t # "absent"
        THEN json.polling.fields[k]
        ELSE DefaultPolling[k]]

\* Schema.Number.pipe(Schema.int(), Schema.positive())
PositiveInt(v) == v.t = "number" /\ ~v.half /\ v.n > 0

\* ConfigSchema.decode(configWithDefaults) does not throw
decodes(json) ==
    /\ json.t \in {"object"}
    /\ \A k \in CommandKeys : json.commands[k] = "string"
    /\ json.work.command = "string"
    /\ json.work.args = "strings"
    /\ \A k \in PollingKeys : PositiveInt(pollingWithDefaults(json)[k])

\* loadFrom(path): the Exit of the effect for a given file.  Reading
\* parsedObj.polling of null throws a TypeError inside the generator, which
\* is a defect and no ConfigError.
loadFrom(path, file) ==
    IF file.stat = "error"
    THEN [ok |-> FALSE, kind |-> "failure", error |-> ConfigError("ConfigAccessError", path)]
    ELSE IF file.stat = "absent"
    THEN [ok |-> FALSE, kind |-> "failure", error |-> ConfigError("ConfigNotFoundError", path)]
    ELSE IF ~file.readable \/ file.json.t = "invalid"
    THEN [ok |-> FALSE, kind |-> "failure", error |-> ConfigError("ConfigParseError", path)]
    ELSE IF file.json.t = "null"
    THEN [ok |-> FALSE, kind |-> "defect", error |-> [name |-> "TypeError"]]
    ELSE IF ~decodes(file.json)
    THEN [ok |-> FALSE, kind |-> "failure", error |-> ConfigError("ConfigValidationError", path)]
    ELSE [ok |-> TRUE,
          value |-> [polling |-> [k \in PollingKeys |-> pollingWithDefaults(file.json)[k].n]]]

\* faulty variant of startActionExitCode: the last branch does not exit
startActionExitCode_elseFallsThrough(out) ==
    IF out.kind = "returned"
    THEN IF out.value.finalStatus = "success" THEN 0
         ELSE IF out.value.maxIterationsReached THEN 1
         ELSE 0
    ELSE 1

\* startAction: the exit code of the process for the Exit of main
startActionExitCode(out) ==
    IF out.kind = "returned"
    THEN IF out.value.finalStatus = "success" THEN 0
         ELSE IF out.value.maxIterationsReached THEN 1
         ELSE 1
    ELSE 1

(***************************************************************************)
(* poll (poller.ts)                                                        *)
(***************************************************************************)
failureWaitSeconds == config.intervalSeconds * 3
maxPollTimeMs == config.maxPollTimeMinutes * 60 * 1000

IterationResult(iteration, st, workedOn, timestamp) ==
    [iteration |-> iteration, status |-> st, workedOn |-> workedOn,
     timestamp |-> timestamp]

PollingResult(its, finalStatus, maxIterationsReached) ==
    [kind |-> "returned",
     value |-> [iterations |-> its, finalStatus |-> finalStatus,
                maxIterationsReached |-> maxIterationsReached]]

\* faulty variant of Raised: the error carries the iterations made so far
Raised_withProgress(error) ==
    [kind |-> "raised", error |-> error, value |-> [iterations |-> iterations]]

Raised(error) == [kind |-> "raised", error |-> error]

Running == [kind |-> "running"]

\* no status text under classification (used by SpecParse only)
NoInput == [words |-> <<>>, seps |-> <<>>, prefix |-> <<>>, suffix |-> <<>>]

Init ==
    /\ config \in Configs
    /\ pc = "LoadingConfig"
    /\ input = NoInput
    /\ parsed = "none"
    /\ now = 0
    /\ iterations = <<>>
    /\ workIterationCount = 0
    /\ status = "none"
    /\ failureDetails = <<>>
    /\ outcome = Running
    /\ trace = <<>>

\* the record kept of one executor call
Call(op, proc, res) ==
    [op |-> op, proc |-> proc, res |-> res, at |-> now,
     until |-> now + executeDurationMs(proc), child |-> spawnedAfter(proc)]

\* faulty variant of BudgetSpent: >= for >
BudgetSpent_nonStrict == (now - 0) >= maxPollTimeMs

\* elapsedTime > maxPollTimeMs
BudgetSpent == (now - 0) > maxPollTimeMs

\* faulty variant of CapReached: off by one
CapReached_offByOne == workIterationCount > config.maxWorkIterations

\* workIterationCount >= config.polling.maxWorkIterations
CapReached == workIterationCount >= config.maxWorkIterations

\* faulty variant of HasChanges: >= for >
HasChanges_nonStrict(stdout) == Len(Trim(stdout)) >= 0

\* gitStatusResult.stdout.trim().length > 0
HasChanges(stdout) == Len(Trim(stdout)) > 0

\* faulty variant of recoverFailures: the error is always re-thrown
recoverFailures_rethrow(res) == res

\* the handler given to Effect.catchTag('CommandExecutionError', ...) around
\* the failure-extraction command
recoverFailures(res) ==
    IF res.ok THEN res
    ELSE IF Truthy(Get(res.error, "stdout")) \/ Truthy(Get(res.error, "stderr"))
    THEN [ok |-> TRUE,
          value |-> [stdout |-> Get(res.error, "stdout"),
                     stderr |-> Get(res.error, "stderr"),
                     exitCode |-> res.error.exitCode]]
    ELSE res

\* faulty variant of LoadConfig: poll is called whatever loading gave
LoadConfig_ignoreError ==
    /\ pc = "LoadingConfig"
    /\ \E file \in FileStates :
        LET res == loadFrom("plod.config.json", file) IN
        IF res.ok
        THEN /\ pc' = "CheckingBudget"
             /\ UNCHANGED outcome
        ELSE /\ pc' = "CheckingBudget"
             /\ outcome' = [kind |-> "configFailed", cause |-> res]
    /\ UNCHANGED <<input, parsed, config, now, iterations, workIterationCount,
                   status, failureDetails, trace>>

\* startAction: loadConfigFrom(options.config), before poll is called
LoadConfig ==
    /\ pc = "LoadingConfig"
    /\ \E file \in FileStates :
        LET res == loadFrom("plod.config.json", file) IN
        IF res.ok
        THEN /\ pc' = "CheckingBudget"
             /\ UNCHANGED outcome
        ELSE /\ pc' = "ConfigFailed"
             /\ outcome' = [kind |-> "configFailed", cause |-> res]
    /\ UNCHANGED <<input, parsed, config, now, iterations, workIterationCount,
                   status, failureDetails, trace>>

\* faulty variant of BudgetExceeded: the status of the last cycle is returned
BudgetExceeded_stale ==
    /\ pc = "CheckingBudget"
    /\ BudgetSpent
    /\ \E p \in StatusProcs :
        LET res == execute("checkBuildStatus", p) IN
        /\ trace' = Append(trace, Call("status", p, res))
        /\ now' = now + executeDurationMs(p)
        /\ IF res.ok
           THEN /\ pc' = "BudgetExceeded"
                /\ outcome' = PollingResult(iterations, status, FALSE)
           ELSE /\ pc' = "Raised"
                /\ outcome' = Raised(res.error)
    /\ UNCHANGED <<input, parsed, config, iterations, workIterationCount, status, failureDetails>>

\* faulty variant of BudgetExceeded: a counter at the cap is reported
BudgetExceeded_reportsCap ==
    /\ pc = "CheckingBudget"
    /\ BudgetSpent
    /\ \E p \in StatusProcs :
        LET res == execute("checkBuildStatus", p) IN
        /\ trace' = Append(trace, Call("status", p, res))
        /\ now' = now + executeDurationMs(p)
        /\ IF res.ok
           THEN /\ pc' = "BudgetExceeded"
                /\ outcome' = PollingResult(iterations,
                                  parseBuildStatus(res.value.stdout), CapReached)
           ELSE /\ pc' = "Raised"
                /\ outcome' = Raised(res.error)
    /\ UNCHANGED <<input, parsed, config, iterations, workIterationCount, status, failureDetails>>

\* lines 105-121: the budget is spent; one last status check, then return
BudgetExceeded ==
    /\ pc = "CheckingBudget"
    /\ BudgetSpent
    /\ \E p \in StatusProcs :
        LET res == execute("checkBuildStatus", p) IN
        /\ trace' = Append(trace, Call("status", p, res))
        /\ now' = now + executeDurationMs(p)
        /\ IF res.ok
           THEN /\ pc' = "BudgetExceeded"
                /\ outcome' = PollingResult(iterations,
                                  parseBuildStatus(res.value.stdout), FALSE)
           ELSE /\ pc' = "Raised"
                /\ outcome' = Raised(res.error)
    /\ UNCHANGED <<input, parsed, config, iterations, workIterationCount, status, failureDetails>>

\* lines 123-125: the status check of a regular cycle fails
PollError ==
    /\ pc = "CheckingBudget"
    /\ ~BudgetSpent
    /\ \E p \in StatusProcs :
        LET res == execute("checkBuildStatus", p) IN
        /\ ~res.ok
        /\ trace' = Append(trace, Call("status", p, res))
        /\ now' = now + executeDurationMs(p)
        /\ pc' = "Raised"
        /\ outcome' = Raised(res.error)
    /\ UNCHANGED <<input, parsed, config, iterations, workIterationCount, status, failureDetails>>

\* faulty variant of PollSuccess: the loop does not return
PollSuccess_noReturn ==
    /\ pc = "CheckingBudget"
    /\ ~BudgetSpent
    /\ \E p \in StatusProcs :
        LET res == execute("checkBuildStatus", p) IN
        /\ res.ok
        /\ parseBuildStatus(res.value.stdout) = "success"
        /\ trace' = Append(trace, Call("status", p, res))
        /\ now' = now + executeDurationMs(p)
        /\ status' = "success"
        /\ iterations' = Append(iterations,
               IterationResult(workIterationCount, "success", FALSE, now'))
        /\ pc' = "PendingSleep"
    /\ UNCHANGED <<input, parsed, config, workIterationCount, failureDetails, outcome>>

\* lines 123-142: status success
PollSuccess ==
    /\ pc = "CheckingBudget"
    /\ ~BudgetSpent
    /\ \E p \in StatusProcs :
        LET res == execute("checkBuildStatus", p) IN
        /\ res.ok
        /\ parseBuildStatus(res.value.stdout) = "success"
        /\ trace' = Append(trace, Call("status", p, res))
        /\ now' = now + executeDurationMs(p)
        /\ status' = "success"
        /\ iterations' = Append(iterations,
               IterationResult(workIterationCount, "success", FALSE, now'))
        /\ pc' = "Succeeded"
        /\ outcome' = PollingResult(iterations', "success", FALSE)
    /\ UNCHANGED <<input, parsed, config, workIterationCount, failureDetails>>

\* faulty variant of PollPending: the list is reset to the new record
PollPending_resetsList ==
    /\ pc = "CheckingBudget"
    /\ ~BudgetSpent
    /\ \E p \in StatusProcs :
        LET res == execute("checkBuildStatus", p) IN
        /\ res.ok
        /\ parseBuildStatus(res.value.stdout) = "pending"
        /\ trace' = Append(trace, Call("status", p, res))
        /\ now' = now + executeDurationMs(p)
        /\ status' = "pending"
        /\ iterations' = <<IterationResult(workIterationCount, "pending", FALSE, now')>>
        /\ pc' = "PendingSleep"
    /\ UNCHANGED <<input, parsed, config, workIterationCount, failureDetails, outcome>>

\* lines 123-127, 144-151: status pending
PollPending ==
    /\ pc = "CheckingBudget"
    /\ ~BudgetSpent
    /\ \E p \in StatusProcs :
        LET res == execute("checkBuildStatus", p) IN
        /\ res.ok
        /\ parseBuildStatus(res.value.stdout) = "pending"
        /\ trace' = Append(trace, Call("status", p, res))
        /\ now' = now + executeDurationMs(p)
        /\ status' = "pending"
        /\ iterations' = Append(iterations,
               IterationResult(workIterationCount, "pending", FALSE, now'))
        /\ pc' = "PendingSleep"
    /\ UNCHANGED <<input, parsed, config, workIterationCount, failureDetails, outcome>>

\* faulty variant of PendingSleep: the clock stands still, the sleep never ends
PendingSleep_never ==
    /\ pc = "PendingSleep"
    /\ FALSE
    /\ UNCHANGED vars

\* lines 152-153
PendingSleep ==
    /\ pc = "PendingSleep"
    /\ now' = now + config.intervalSeconds * 1000
    /\ pc' = "CheckingBudget"
    /\ UNCHANGED <<input, parsed, config, iterations, workIterationCount, status,
                   failureDetails, outcome, trace>>

\* lines 123-127, 156-170: status failure with the cap reached
PollFailureCapReached ==
    /\ pc = "CheckingBudget"
    /\ ~BudgetSpent
    /\ \E p \in StatusProcs :
        LET res == execute("checkBuildStatus", p) IN
        /\ res.ok
        /\ parseBuildStatus(res.value.stdout) = "failure"
        /\ CapReached
        /\ trace' = Append(trace, Call("status", p, res))
        /\ now' = now + executeDurationMs(p)
        /\ status' = "failure"
        /\ pc' = "IterationCapExceeded"
        /\ outcome' = PollingResult(iterations, "failure", TRUE)
    /\ UNCHANGED <<input, parsed, config, iterations, workIterationCount, failureDetails>>

\* faulty variant of PollFailureWork: the counter is not incremented
PollFailureWork_noIncrement ==
    /\ pc = "CheckingBudget"
    /\ ~BudgetSpent
    /\ \E p \in StatusProcs :
        LET res == execute("checkBuildStatus", p) IN
        /\ res.ok
        /\ parseBuildStatus(res.value.stdout) = "failure"
        /\ ~CapReached
        /\ trace' = Append(trace, Call("status", p, res))
        /\ now' = now + executeDurationMs(p)
        /\ status' = "failure"
        /\ pc' = "GraceSleep"
    /\ UNCHANGED <<input, parsed, config, workIterationCount, iterations,
                   failureDetails, outcome>>

\* lines 123-127, 156-186: status failure, a work iteration starts
PollFailureWork ==
    /\ pc = "CheckingBudget"
    /\ ~BudgetSpent
    /\ \E p \in StatusProcs :
        LET res == execute("checkBuildStatus", p) IN
        /\ res.ok
        /\ parseBuildStatus(res.value.stdout) = "failure"
        /\ ~CapReached
        /\ trace' = Append(trace, Call("status", p, res))
        /\ now' = now + executeDurationMs(p)
        /\ status' = "failure"
        /\ workIterationCount' = workIterationCount + 1
        /\ pc' = "GraceSleep"
    /\ UNCHANGED <<input, parsed, config, iterations, failureDetails, outcome>>

\* faulty variant of GraceSleep: the grace period is one poll interval
GraceSleep_oneInterval ==
    /\ pc = "GraceSleep"
    /\ now' = now + config.intervalSeconds * 1000
    /\ pc' = "Extracting"
    /\ UNCHANGED <<input, parsed, config, iterations, workIterationCount, status,
                   failureDetails, outcome, trace>>

\* line 187
GraceSleep ==
    /\ pc = "GraceSleep"
    /\ now' = now + failureWaitSeconds * 1000
    /\ pc' = "Extracting"
    /\ UNCHANGED <<input, parsed, config, iterations, workIterationCount, status,
                   failureDetails, outcome, trace>>

\* lines 189-216: extract the build failures
ExtractFailures ==
    /\ pc = "Extracting"
    /\ \E p \in FailuresProcs :
        LET res == execute("checkBuildFailures", p)
            failuresResult == recoverFailures(res)
        IN
        /\ trace' = Append(trace, Call("extract", p, res))
        /\ now' = now + executeDurationMs(p)
        /\ IF failuresResult.ok
           THEN /\ failureDetails' = OrElse(failuresResult.value.stdout,
                                            failuresResult.value.stderr)
                /\ pc' = "Remediating"
                /\ UNCHANGED outcome
           ELSE /\ pc' = "Raised"
                /\ outcome' = Raised(failuresResult.error)
                /\ UNCHANGED failureDetails
    /\ UNCHANGED <<input, parsed, config, iterations, workIterationCount, status>>

\* wall-clock time a work call takes
workDurationMs(args, session, d) ==
    IF ~ValidWorkConfig(args) THEN 0
    ELSE IF session = "hangs" THEN DEFAULT_WORK_TIMEOUT_MINUTES * 60 * 1000
    ELSE IF session = "throws" THEN 0
    ELSE d

\* faulty variant of Remediate: a worker error is logged and the cycle goes on
Remediate_ignoreError ==
    /\ pc = "Remediating"
    /\ \E session \in SessionBehaviours, d \in AgentDurationsMs :
        LET res == work(config.workArgs, failureDetails, session) IN
        /\ trace' = Append(trace,
               [op |-> "agent", details |-> failureDetails, session |-> session,
                res |-> res, at |-> now,
                until |-> now + workDurationMs(config.workArgs, session, d)])
        /\ now' = now + workDurationMs(config.workArgs, session, d)
        /\ pc' = "ChangeCheck"
        /\ UNCHANGED outcome
    /\ UNCHANGED <<input, parsed, config, iterations, workIterationCount, status, failureDetails>>

\* lines 218-239: run Claude on the failures
Remediate ==
    /\ pc = "Remediating"
    /\ \E session \in SessionBehaviours, d \in AgentDurationsMs :
        LET res == work(config.workArgs, failureDetails, session) IN
        /\ trace' = Append(trace,
               [op |-> "agent", details |-> failureDetails, session |-> session,
                res |-> res, at |-> now,
                until |-> now + workDurationMs(config.workArgs, session, d)])
        /\ now' = now + workDurationMs(config.workArgs, session, d)
        /\ IF res.ok
           THEN /\ pc' = "ChangeCheck"
                /\ UNCHANGED outcome
           ELSE /\ pc' = "Raised"
                /\ outcome' = Raised(res.error)
    /\ UNCHANGED <<input, parsed, config, iterations, workIterationCount, status, failureDetails>>

\* lines 241-268: git status --porcelain, then record the iteration
ChangeCheck ==
    /\ pc = "ChangeCheck"
    /\ \E p \in GitStatusProcs :
        LET res == execute("git status --porcelain", p) IN
        /\ trace' = Append(trace, Call("git", p, res))
        /\ now' = now + executeDurationMs(p)
        /\ IF ~res.ok
           THEN /\ pc' = "Raised"
                /\ outcome' = Raised(res.error)
                /\ UNCHANGED iterations
           ELSE IF ~HasChanges(res.value.stdout)
           THEN /\ iterations' = Append(iterations,
                       IterationResult(workIterationCount, status, FALSE, now'))
                /\ pc' = "NoChangeSleep"
                /\ UNCHANGED outcome
           ELSE /\ iterations' = Append(iterations,
                       IterationResult(workIterationCount, status, TRUE, now'))
                /\ pc' = "Publishing"
                /\ UNCHANGED outcome
    /\ UNCHANGED <<input, parsed, config, workIterationCount, status, failureDetails>>

\* lines 258-260
NoChangeSleep ==
    /\ pc = "NoChangeSleep"
    /\ now' = now + config.intervalSeconds * 1000
    /\ pc' = "CheckingBudget"
    /\ UNCHANGED <<input, parsed, config, iterations, workIterationCount, status,
                   failureDetails, outcome, trace>>

\* faulty variant of Publish: a publish error is swallowed
Publish_ignoreError ==
    /\ pc = "Publishing"
    /\ \E p \in PublishProcs :
        LET res == execute("publish", p) IN
        /\ trace' = Append(trace, Call("publish", p, res))
        /\ now' = now + executeDurationMs(p)
        /\ pc' = "PublishSleep"
        /\ UNCHANGED outcome
    /\ UNCHANGED <<input, parsed, config, iterations, workIterationCount, status, failureDetails>>

\* lines 270-273: publish the fixes
Publish ==
    /\ pc = "Publishing"
    /\ \E p \in PublishProcs :
        LET res == execute("publish", p) IN
        /\ trace' = Append(trace, Call("publish", p, res))
        /\ now' = now + executeDurationMs(p)
        /\ IF res.ok
           THEN /\ pc' = "PublishSleep"
                /\ UNCHANGED outcome
           ELSE /\ pc' = "Raised"
                /\ outcome' = Raised(res.error)
    /\ UNCHANGED <<input, parsed, config, iterations, workIterationCount, status, failureDetails>>

\* lines 275-277
PublishSleep ==
    /\ pc = "PublishSleep"
    /\ now' = now + config.intervalSeconds * 1000
    /\ pc' = "CheckingBudget"
    /\ UNCHANGED <<input, parsed, config, iterations, workIterationCount, status,
                   failureDetails, outcome, trace>>

Next ==
    \/ LoadConfig
    \/ BudgetExceeded
    \/ PollError
    \/ PollSuccess
    \/ PollPending
    \/ PendingSleep
    \/ PollFailureCapReached
    \/ PollFailureWork
    \/ GraceSleep
    \/ ExtractFailures
    \/ Remediate
    \/ ChangeCheck
    \/ NoChangeSleep
    \/ Publish
    \/ PublishSleep

Spec == Init /\ [][Next]_vars

\* The run is one fiber that is always scheduled: a step that can be taken is
\* taken.  Every external call of the model returns or is cut off by its
\* timeout, and every sleep ends.
SpecLive == Init /\ [][Next]_vars /\ WF_vars(Next)

TypeOK ==
    /\ pc \in {"LoadingConfig", "ConfigFailed", "CheckingBudget", "PendingSleep", "GraceSleep", "Extracting",
               "Remediating", "ChangeCheck", "NoChangeSleep", "Publishing",
               "PublishSleep", "Succeeded", "BudgetExceeded",
               "IterationCapExceeded", "Raised"}
    /\ now \in Nat
    /\ workIterationCount \in Nat
    /\ status \in {"none", "success", "failure", "pending"}

(***************************************************************************)
(* parseBuildStatus on its own: the status texts it is applied to          *)
(***************************************************************************)
\* A status text is a sequence of words (maximal runs of letters, digits and
\* underscores) with separators of other characters between them and around
\* them.  Each word is tagged with the keyword class the documentation of
\* checkBuildStatus gives it, "none" for a word that is no keyword.
Word(w, kw) == [w |-> w, kw |-> kw]

Vocabulary ==
    { Word(<<"o","k">>, "success"),
      Word(<<"p","a","s","s">>, "success"),
      Word(<<"P","a","s","s","e","d">>, "success"),
      Word(<<"S","U","C","C","E","S","S">>, "success"),
      Word(<<"s","u","c","c","e","s","s","f","u","l">>, "success"),
      Word(<<"f","a","i","l">>, "failure"),
      Word(<<"F","A","I","L","E","D">>, "failure"),
      Word(<<"f","a","i","l","u","r","e">>, "failure"),
      Word(<<"E","r","r","o","r">>, "failure"),
      Word(<<"b","r","o","k","e","n">>, "failure"),
      Word(<<"p","e","n","d","i","n","g">>, "pending"),
      Word(<<"R","u","n","n","i","n","g">>, "pending"),
      Word(<<"i","n">>, "none"),
      Word(<<"p","r","o","g","r","e","s","s">>, "none"),
      Word(<<"o","k","a","y">>, "none"),
      Word(<<"u","n","s","u","c","c","e","s","s","f","u","l">>, "none"),
      Word(<<"f","a","i","l","o","v","e","r">>, "none"),
      Word(<<"b","u","i","l","d","_","o","k">>, "none") }

Separators == { <<" ">>, <<"-">> }

Sample_passed ==
    [words |-> <<Word(<<"B","u","i","l","d">>, "none"), Word(<<"p","a","s","s","e","d">>, "success"), Word(<<"w","i","t","h">>, "none"), Word(<<"0">>, "none"), Word(<<"w","a","r","n","i","n","g","s">>, "none")>>,
     seps |-> <<<<" ">>, <<" ">>, <<" ">>, <<" ">>>>, prefix |-> <<>>, suffix |-> <<>>]
Sample_failed ==
    [words |-> <<Word(<<"S","t","a","t","u","s">>, "none"), Word(<<"F","A","I","L","E","D">>, "failure"), Word(<<"2">>, "none"), Word(<<"t","e","s","t","s">>, "none")>>,
     seps |-> <<<<":"," ">>, <<" ","(">>, <<" ">>>>, prefix |-> <<>>, suffix |-> <<")">>]
Sample_negated ==
    [words |-> <<Word(<<"T","h","i","s">>, "none"), Word(<<"i","s">>, "none"), Word(<<"n","o","t">>, "none"), Word(<<"a">>, "none"), Word(<<"s","u","c","c","e","s","s">>, "success")>>,
     seps |-> <<<<" ">>, <<" ">>, <<" ">>, <<" ">>>>, prefix |-> <<>>, suffix |-> <<>>]

Samples == { Sample_passed, Sample_failed, Sample_negated }

ParseInputs ==
    Samples \cup
    UNION { { [words |-> ws, seps |-> ss, prefix |-> pad[1], suffix |-> pad[2]] :
                ws \in [1..n -> Vocabulary],
                ss \in [1..(IF n = 0 THEN 0 ELSE n - 1) -> Separators],
                pad \in { << <<>>, <<>> >>, << <<" ">>, <<"\n">> >> } } :
            n \in 0..MaxWords }

RECURSIVE JoinWords(_, _)
JoinWords(ws, ss) ==
    IF ws = <<>> THEN <<>>
    ELSE IF Len(ws) = 1 THEN ws[1].w
    ELSE ws[1].w \o ss[1] \o JoinWords(Tail(ws), Tail(ss))

\* the characters of a status text
Text(in) == in.prefix \o JoinWords(in.words, in.seps) \o in.suffix

InitParse ==
    /\ config = [intervalSeconds |-> 15, maxPollTimeMinutes |-> 1,
                 maxWorkIterations |-> 1, workArgs |-> <<"-p", "fix the build">>]
    /\ pc = "Classify"
    /\ input \in ParseInputs
    /\ parsed = "none"
    /\ now = 0
    /\ iterations = <<>>
    /\ workIterationCount = 0
    /\ status = "none"
    /\ failureDetails = <<>>
    /\ outcome = Running
    /\ trace = <<>>

\* const status = parseBuildStatus(statusResult.stdout)
ClassifyText ==
    /\ pc = "Classify"
    /\ parsed' = parseBuildStatus(Text(input))
    /\ pc' = "Classified"
    /\ UNCHANGED <<input, config, now, iterations, workIterationCount, status,
                   failureDetails, outcome, trace>>

NextParse == ClassifyText

SpecParse == InitParse /\ [][NextParse]_vars

(***************************************************************************)
(* The executor on its own: one call of execute or executeWithArgs         *)
(***************************************************************************)
T_padded == <<" ","o","k"," ","\n">>
T_twoWords == <<"a"," ","b">>
T_ls == <<"l","s">>
T_echo == <<"e","c","h","o">>

ExecOutputs == { <<>>, T_out, T_blank, T_padded, T_twoWords }

ExecProcs ==
    { Proc(c, o, e) : c \in {0, 1, 2}, o \in ExecOutputs, e \in ExecOutputs }
        \cup { ProcHangs }

ExecInputs ==
    { [api |-> "execute", command |-> T_ls, args |-> <<>>, proc |-> p] :
          p \in ExecProcs }
    \cup
    { [api |-> "executeWithArgs", command |-> T_echo,
       args |-> << <<"a">>, <<"b">> >>, proc |-> p] : p \in ExecProcs }

InitExec ==
    /\ config = [intervalSeconds |-> 15, maxPollTimeMinutes |-> 1,
                 maxWorkIterations |-> 1, workArgs |-> <<"-p", "fix the build">>]
    /\ pc = "Executing"
    /\ input \in ExecInputs
    /\ parsed = "none"
    /\ now = 0
    /\ iterations = <<>>
    /\ workIterationCount = 0
    /\ status = "none"
    /\ failureDetails = <<>>
    /\ outcome = Running
    /\ trace = <<>>

\* one call of the executor, from spawn to the end of release
RunCommand ==
    /\ pc = "Executing"
    /\ outcome' = [kind |-> "executed",
                   exit |-> IF input.api = "execute"
                            THEN execute(input.command, input.proc)
                            ELSE executeWithArgs(input.command, input.args,
                                                 input.proc),
                   child |-> spawnedAfter(input.proc)]
    /\ now' = now + executeDurationMs(input.proc)
    /\ pc' = "Executed"
    /\ UNCHANGED <<input, parsed, config, iterations, workIterationCount, status,
                   failureDetails, trace>>

NextExec == RunCommand

SpecExec == InitExec /\ [][NextExec]_vars

(***************************************************************************)
(* The Claude worker on its own: one call of work                          *)
(***************************************************************************)
ArgWords == {"-p", "fix the build", "--verbose"}

ArgLists == UNION { [1..n -> ArgWords] : n \in 0..MaxArgs }

WorkInputs == [args : ArgLists, details : {<<>>, T_out}, session : SessionBehaviours]

InitWork ==
    /\ config = [intervalSeconds |-> 15, maxPollTimeMinutes |-> 1,
                 maxWorkIterations |-> 1, workArgs |-> <<"-p", "fix the build">>]
    /\ pc = "Working"
    /\ input \in WorkInputs
    /\ parsed = "none"
    /\ now = 0
    /\ iterations = <<>>
    /\ workIterationCount = 0
    /\ status = "none"
    /\ failureDetails = <<>>
    /\ outcome = Running
    /\ trace = <<>>

\* one call of work, until its effect has ended
RunWork ==
    /\ pc = "Working"
    /\ outcome' = [kind |-> "worked",
                   exit |-> work(input.args, input.details, input.session)]
    /\ now' = now + workDurationMs(input.args, input.session, 0)
    /\ pc' = "Worked"
    /\ UNCHANGED <<input, parsed, config, iterations, workIterationCount, status,
                   failureDetails, trace>>

NextWork == RunWork

SpecWork == InitWork /\ [][NextWork]_vars

(***************************************************************************)
(* The configuration service on its own: one call of loadFrom              *)
(***************************************************************************)
InitConfig ==
    /\ config = [intervalSeconds |-> 15, maxPollTimeMinutes |-> 1,
                 maxWorkIterations |-> 1, workArgs |-> <<"-p", "fix the build">>]
    /\ pc = "Loading"
    /\ input \in ConfigFiles
    /\ parsed = "none"
    /\ now = 0
    /\ iterations = <<>>
    /\ workIterationCount = 0
    /\ status = "none"
    /\ failureDetails = <<>>
    /\ outcome = Running
    /\ trace = <<>>

\* one call of loadFrom
LoadFile ==
    /\ pc = "Loading"
    /\ outcome' = [kind |-> "loaded", exit |-> loadFrom("plod.config.json", input)]
    /\ pc' = "Loaded"
    /\ UNCHANGED <<input, parsed, config, now, iterations, workIterationCount,
                   status, failureDetails, trace>>

NextConfig == LoadFile

SpecConfig == InitConfig /\ [][NextConfig]_vars

(***************************************************************************)
(* The CLI started on a configuration file written as the README documents *)
(* it: loadFrom, then poll with the configuration it returned              *)
(***************************************************************************)
\* the members of the polling object of the file: the three the schema
\* declares and maxIterations, the name the README and the tests use
DocumentedPollingKeys == PollingKeys \cup {"maxIterations"}

\* complete configuration files; the cap is written under one of its two
\* names
CliFiles ==
    { File("present", TRUE,
           [t |-> "object", commands |-> FullCommands, work |-> FullWork,
            polling |-> [t |-> "object", fields |-> f]]) :
        f \in { g \in [DocumentedPollingKeys ->
                          {JAbsent} \cup { JNumber(n, FALSE) :
                               n \in IntervalChoices \cup (1..MaxPollMinutes)
                                      \cup (1..MaxWorkIter) }] :
                  /\ g["intervalSeconds"].n \in IntervalChoices
                  /\ g["maxPollTimeMinutes"].t = "number"
                  /\ g["maxPollTimeMinutes"].n \in 1..MaxPollMinutes
                  /\ (g["maxWorkIterations"].t = "number")
                        # (g["maxIterations"].t = "number")
                  /\ g["maxWorkIterations"].t = "number"
                        => g["maxWorkIterations"].n \in 1..MaxWorkIter
                  /\ g["maxIterations"].t = "number"
                        => g["maxIterations"].n \in 1..MaxWorkIter } }

InitCli ==
    /\ config = [intervalSeconds |-> 15, maxPollTimeMinutes |-> 1,
                 maxWorkIterations |-> 1, workArgs |-> <<"-p", "fix the build">>]
    /\ pc = "LoadingConfig"
    /\ input \in CliFiles
    /\ parsed = "none"
    /\ now = 0
    /\ iterations = <<>>
    /\ workIterationCount = 0
    /\ status = "none"
    /\ failureDetails = <<>>
    /\ outcome = Running
    /\ trace = <<>>

\* startAction: config = loadConfigFrom(options.config), then poll(config)
LoadCli ==
    /\ pc = "LoadingConfig"
    /\ LET res == loadFrom("plod.config.json", input) IN
       IF res.ok
       THEN /\ pc' = "CheckingBudget"
            /\ config' = [intervalSeconds |-> res.value.polling["intervalSeconds"],
                          maxPollTimeMinutes |-> res.value.polling["maxPollTimeMinutes"],
                          maxWorkIterations |-> res.value.polling["maxWorkIterations"],
                          workArgs |-> config.workArgs]
            /\ UNCHANGED outcome
       ELSE /\ pc' = "ConfigFailed"
            /\ outcome' = [kind |-> "configFailed", cause |-> res]
            /\ UNCHANGED config
    /\ UNCHANGED <<input, parsed, now, iterations, workIterationCount,
                   status, failureDetails, trace>>

NextCli ==
    \/ LoadCli
    \/ BudgetExceeded
    \/ PollError
    \/ PollSuccess
    \/ PollPending
    \/ PendingSleep
    \/ PollFailureCapReached
    \/ PollFailureWork
    \/ GraceSleep
    \/ ExtractFailures
    \/ Remediate
    \/ ChangeCheck
    \/ NoChangeSleep
    \/ Publish
    \/ PublishSleep

SpecCli == InitCli /\ [][NextCli]_vars

(***************************************************************************)
(* Properties                                                              *)
(***************************************************************************)
Terminal == {"Succeeded", "BudgetExceeded", "IterationCapExceeded", "Raised"}

\* positions of the calls of one kind in the call history
Calls(op) == {i \in DOMAIN trace : trace[i].op = op}

\* the call at i is an executor call that failed
CommandFailed(i) == trace[i].op # "agent" /\ ~trace[i].res.ok

\* the outputs the status check can give, and the class of each
StatusTexts ==
    {execute("checkBuildStatus", p).value.stdout :
        p \in {q \in StatusProcs : execute("checkBuildStatus", q).ok}}
Classification == [t \in StatusTexts |-> parseBuildStatus(t)]

\* the status check at i answered and was classified as st
StatusWas(i, st) ==
    /\ trace[i].op = "status"
    /\ trace[i].res.ok
    /\ Classification[trace[i].res.value.stdout] = st

\* the process of the call at i exited non-zero (it did not hang)
ExitedNonZero(i) == ~trace[i].proc.timedOut /\ trace[i].proc.exitCode # 0

\* C1: the remediation-attempt counter never decreases and never exceeds
\* maxWorkIterations, and the agent is invoked at most maxWorkIterations
\* times in a run.
C1_CounterMonotoneAndBounded ==
    [][ /\ workIterationCount' >= workIterationCount
        /\ workIterationCount' <= config'.maxWorkIterations
        /\ Cardinality(Calls("agent"))' <= config'.maxWorkIterations ]_vars

C1_Witness ==
    /\ pc = "IterationCapExceeded"
    /\ workIterationCount = config.maxWorkIterations
    /\ Cardinality(Calls("agent")) = config.maxWorkIterations

\* C2: a failure-extraction command that exits non-zero does not abort the
\* run if it wrote any stdout or any stderr, and the text it wrote is the
\* failure detail; if it wrote neither, its error aborts the run.
C2_AnyOutputTolerated ==
    \A i \in Calls("extract") :
        ExitedNonZero(i) =>
            IF trace[i].proc.stdout # <<>> \/ trace[i].proc.stderr # <<>>
            THEN /\ i = Len(trace) =>
                       /\ pc = "Remediating"
                       /\ failureDetails \in
                              {trace[i].proc.stdout, trace[i].proc.stderr} \ {<<>>}
                 /\ i < Len(trace) => trace[i+1].op = "agent"
            ELSE /\ i = Len(trace)
                 /\ pc = "Raised"
                 /\ outcome = Raised(trace[i].res.error)

\* C3: a failure-extraction command that exits with code 1 having written
\* to stderr does not abort the run, and the agent is called with exactly
\* that stderr text.
C3_StderrIsFailureDetail ==
    \A i \in Calls("extract") :
        (/\ ~trace[i].proc.timedOut
         /\ trace[i].proc.exitCode = 1
         /\ trace[i].proc.stderr # <<>>)
        => /\ i = Len(trace) =>
                 pc = "Remediating" /\ failureDetails = trace[i].proc.stderr
           /\ i < Len(trace) =>
                 /\ trace[i+1].op = "agent"
                 /\ trace[i+1].details = trace[i].proc.stderr

C3_Witness ==
    \E i \in Calls("extract") :
        /\ ~trace[i].proc.timedOut
        /\ trace[i].proc.exitCode = 1
        /\ trace[i].proc.stderr = T_err
        /\ i < Len(trace)
        /\ trace[i+1].op = "agent"
        /\ trace[i+1].details = T_err

\* C4: the only command error a run recovers from is a failure-extraction
\* command that exited non-zero and produced output; every other command
\* error, a failure-extraction command that timed out included, ends the run
\* with an error.
C4_OnlyNonZeroExitWithOutputRecovered ==
    \A i \in DOMAIN trace :
        (/\ CommandFailed(i)
         /\ ~(/\ trace[i].op = "extract"
              /\ ExitedNonZero(i)
              /\ (trace[i].proc.stdout # <<>> \/ trace[i].proc.stderr # <<>>)))
        => /\ i = Len(trace)
           /\ pc = "Raised"

\* C5: a CommandExecutionError of the status check, of git status or of the
\* publish command ends the run with that error; no call follows it.
C5_CommandErrorEndsRun ==
    \A i \in Calls("status") \cup Calls("git") \cup Calls("publish") :
        ~trace[i].res.ok
        => /\ i = Len(trace)
           /\ pc = "Raised"
           /\ outcome = Raised(trace[i].res.error)
           /\ outcome.error._tag = "CommandExecutionError"

C5_Witness ==
    /\ pc = "Raised"
    /\ Len(trace) > 0
    /\ trace[Len(trace)].op = "publish"
    /\ ~trace[Len(trace)].res.ok
    /\ \E i \in Calls("git") : trace[i].res.ok

\* C6: any failure of the agent call ends the run at once with a
\* ClaudeWorkerError; no agent call, change check, publish or status check
\* follows it.
C6_WorkerErrorEndsRun ==
    \A i \in Calls("agent") :
        ~trace[i].res.ok
        => /\ i = Len(trace)
           /\ pc = "Raised"
           /\ outcome = Raised(trace[i].res.error)
           /\ outcome.error._tag = "ClaudeWorkerError"

C6_Witness ==
    /\ pc = "Raised"
    /\ Len(trace) > 0
    /\ trace[Len(trace)].op = "agent"
    /\ trace[Len(trace)].session = "hangs"
    /\ trace[Len(trace)].res.sessionStarted
    /\ outcome.error._tag = "ClaudeWorkerError"

\* The scenario of C7: every status check so far classified as failure, every
\* extraction command exited with non-empty text, every agent call returned a result and
\* every change check found a clean workspace.
AllFailuresNoChanges ==
    \A i \in DOMAIN trace :
        /\ trace[i].op = "status" => StatusWas(i, "failure")
        /\ trace[i].op = "extract" =>
               /\ ~trace[i].proc.timedOut
               /\ recoverFailures(trace[i].res).ok
               /\ Truthy(OrElse(recoverFailures(trace[i].res).value.stdout,
                                recoverFailures(trace[i].res).value.stderr))
        /\ trace[i].op = "agent" => trace[i].res.ok
        /\ trace[i].op = "git" =>
               trace[i].res.ok /\ Trim(trace[i].proc.stdout) = <<>>
        /\ trace[i].op # "publish"

\* C7 as stated: in that scenario the publish command is never invoked and
\* the run ends by iteration-cap termination only.
C7_EndsAtIterationCap ==
    (AllFailuresNoChanges /\ trace # <<>>)
    => /\ Calls("publish") = {}
       /\ pc \in Terminal =>
              /\ pc = "IterationCapExceeded"
              /\ outcome.kind = "returned"
              /\ outcome.value.maxIterationsReached

\* C7 as amended: in that scenario the publish command is never invoked, the
\* run raises no error and keeps going until it ends by iteration-cap
\* termination (maxIterationsReached = true) or, when the budget runs out
\* first, by budget termination (maxIterationsReached = false, failure).
C7_EndsAtIterationCapOrBudget ==
    (AllFailuresNoChanges /\ trace # <<>>)
    => /\ Calls("publish") = {}
       /\ pc \notin {"Publishing", "PublishSleep", "Raised", "Succeeded"}
       /\ pc \notin Terminal => ENABLED Next
       /\ pc = "IterationCapExceeded" =>
              /\ outcome.kind = "returned"
              /\ outcome.value.maxIterationsReached
              /\ Cardinality(Calls("agent")) = config.maxWorkIterations
       /\ pc = "BudgetExceeded" =>
              /\ outcome.kind = "returned"
              /\ ~outcome.value.maxIterationsReached
              /\ outcome.value.finalStatus = "failure"
              /\ trace[Len(trace)].at > maxPollTimeMs

C7_Witness ==
    /\ AllFailuresNoChanges
    /\ pc = "IterationCapExceeded"
    /\ Calls("git") # {}
    /\ Calls("publish") = {}
    /\ \A r \in Range(iterations) : ~r.workedOn

\* two status checks, with no status check between them, both failure
ConsecutiveFailures(i, j) ==
    /\ i < j
    /\ StatusWas(i, "failure")
    /\ StatusWas(j, "failure")
    /\ \A k \in (i+1)..(j-1) : trace[k].op # "status"

\* C8 as stated: with maxWorkIterations = 1, a second failure in a row ends
\* the run there with maxIterationsReached = true and finalStatus = failure,
\* after exactly one agent call.
C8_SecondFailureHitsCap ==
    config.maxWorkIterations = 1 =>
        \A i, j \in Calls("status") :
            ConsecutiveFailures(i, j)
            => /\ j = Len(trace)
               /\ pc = "IterationCapExceeded"
               /\ outcome.kind = "returned"
               /\ outcome.value.maxIterationsReached
               /\ outcome.value.finalStatus = "failure"
               /\ Cardinality(Calls("agent")) = 1

\* C8 as amended: with maxWorkIterations = 1, a second failure in a row ends
\* the run there with finalStatus = failure after exactly one agent call;
\* maxIterationsReached is true unless the budget was already spent when
\* that cycle started, and then the run ends by budget termination with
\* maxIterationsReached = false.
C8_SecondFailureEndsRun ==
    config.maxWorkIterations = 1 =>
        \A i, j \in Calls("status") :
            ConsecutiveFailures(i, j)
            => /\ j = Len(trace)
               /\ pc \in {"IterationCapExceeded", "BudgetExceeded"}
               /\ outcome.kind = "returned"
               /\ outcome.value.finalStatus = "failure"
               /\ outcome.value.maxIterationsReached = ~(trace[j].at > maxPollTimeMs)
               /\ outcome.value.maxIterationsReached = (pc = "IterationCapExceeded")
               /\ Cardinality(Calls("agent")) = 1

C8_Witness ==
    /\ config.maxWorkIterations = 1
    /\ pc = "IterationCapExceeded"
    /\ \E i, j \in Calls("status") : ConsecutiveFailures(i, j) /\ j = Len(trace)
    /\ outcome.value.maxIterationsReached
    /\ Cardinality(Calls("agent")) = 1

\* C9: a run whose first status check is success returns one record (status
\* success, workedOn false), finalStatus success and maxIterationsReached
\* false, and calls nothing but that status check.
C9_FirstSuccessReturnsAtOnce ==
    (Len(trace) >= 1 /\ StatusWas(1, "success"))
    => /\ Len(trace) = 1
       /\ pc = "Succeeded"
       /\ outcome.kind = "returned"
       /\ Len(outcome.value.iterations) = 1
       /\ outcome.value.iterations[1].status = "success"
       /\ outcome.value.iterations[1].workedOn = FALSE
       /\ outcome.value.finalStatus = "success"
       /\ outcome.value.maxIterationsReached = FALSE

C9_Witness ==
    /\ pc = "Succeeded"
    /\ Len(trace) = 1
    /\ StatusWas(1, "success")
    /\ Len(outcome.value.iterations) = 1

\* every status check made so far was classified as pending
AllPendingSoFar ==
    /\ Calls("status") = DOMAIN trace
    /\ \A i \in DOMAIN trace : StatusWas(i, "pending")

\* C10: when the elapsed time is found to exceed the budget and every status
\* check so far was pending, the run makes one more status check and returns
\* maxIterationsReached = false with finalStatus equal to the classification
\* of that check (if that check itself fails, its error ends the run).
C10_BudgetExceededReturnsFreshStatus ==
    [][ (pc = "CheckingBudget" /\ BudgetSpent /\ AllPendingSoFar)
        => LET last == trace'[Len(trace')] IN
           /\ Len(trace') = Len(trace) + 1
           /\ last.op = "status"
           /\ IF last.res.ok
              THEN /\ pc' = "BudgetExceeded"
                   /\ outcome'.kind = "returned"
                   /\ outcome'.value.maxIterationsReached = FALSE
                   /\ outcome'.value.finalStatus =
                          parseBuildStatus(last.res.value.stdout)
                   /\ outcome'.value.iterations = iterations
              ELSE /\ pc' = "Raised"
                   /\ outcome' = Raised(last.res.error) ]_vars

C10_Witness ==
    /\ pc = "BudgetExceeded"
    /\ Len(trace) >= 3
    /\ \A i \in 1..(Len(trace) - 1) : StatusWas(i, "pending")
    /\ StatusWas(Len(trace), "success")
    /\ outcome.value.finalStatus = "success"
    /\ ~outcome.value.maxIterationsReached

\* the last status check of the run
LastStatusCall == CHOOSE i \in Calls("status") : \A j \in Calls("status") : j <= i

\* C11: for every returned RunResult, finalStatus is the classification of
\* the last status check of the run, which is the last call of the run.
C11_FinalStatusIsLastObserved ==
    outcome.kind = "returned"
    => /\ Calls("status") # {}
       /\ LastStatusCall = Len(trace)
       /\ trace[LastStatusCall].res.ok
       /\ outcome.value.finalStatus =
              parseBuildStatus(trace[LastStatusCall].res.value.stdout)

C11_Witness ==
    /\ pc = "BudgetExceeded"
    /\ iterations # <<>>
    /\ iterations[Len(iterations)].status = "pending"
    /\ outcome.value.finalStatus = "failure"
    /\ StatusWas(Len(trace), "failure")

\* the three ways a run returns, read from the result and the call history
SuccessTermination ==
    /\ outcome.value.iterations # <<>>
    /\ outcome.value.iterations[Len(outcome.value.iterations)].status = "success"
BudgetTermination == trace[Len(trace)].at > maxPollTimeMs
CapTermination == outcome.value.maxIterationsReached

\* C12: whenever a run returns, exactly one of success termination, budget
\* termination and iteration-cap termination is true.
C12_ExactlyOneTermination ==
    outcome.kind = "returned"
    => Cardinality({t \in {"success", "budget", "cap"} :
                       \/ t = "success" /\ SuccessTermination
                       \/ t = "budget" /\ BudgetTermination
                       \/ t = "cap" /\ CapTermination}) = 1

C12_Witness ==
    /\ outcome.kind = "returned"
    /\ BudgetTermination
    /\ outcome.value.finalStatus = "success"
    /\ ~SuccessTermination
    /\ ~CapTermination

\* C13: when the budget is found exceeded, or the cap is found reached on a
\* failure, the run returns a RunResult and raises no error.
C13_ExhaustionReturnsResult ==
    /\ (trace # <<>> /\ trace[Len(trace)].op = "status"
          /\ trace[Len(trace)].at > maxPollTimeMs)
       => /\ outcome.kind = "returned"
          /\ ~outcome.value.maxIterationsReached
    /\ pc = "IterationCapExceeded"
       => /\ outcome.kind = "returned"
          /\ outcome.value.maxIterationsReached

\* C14: a run ends either with a complete RunResult or with a raised
\* CommandExecutionError or ClaudeWorkerError; a raised error carries no
\* RunResult and no part of the iteration list.
C14_ResultOrError ==
    /\ pc \in Terminal =>
         \/ /\ pc # "Raised"
            /\ outcome.kind = "returned"
            /\ DOMAIN outcome = {"kind", "value"}
            /\ DOMAIN outcome.value =
                   {"iterations", "finalStatus", "maxIterationsReached"}
            /\ outcome.value.iterations = iterations
            /\ outcome.value.finalStatus \in {"success", "failure", "pending"}
            /\ outcome.value.maxIterationsReached \in BOOLEAN
         \/ /\ pc = "Raised"
            /\ outcome.kind = "raised"
            /\ DOMAIN outcome = {"kind", "error"}
            /\ outcome.error._tag \in {"CommandExecutionError", "ClaudeWorkerError"}
            /\ "iterations" \notin DOMAIN outcome.error
    /\ pc \notin Terminal \cup {"ConfigFailed"} => outcome = Running

C14_Witness ==
    /\ pc = "Raised"
    /\ iterations # <<>>
    /\ iterations[Len(iterations)].workedOn
    /\ outcome.kind = "raised"

\* failure observations of regular cycles that passed the cap check
FailurePasses ==
    {i \in Calls("status") :
        /\ StatusWas(i, "failure")
        /\ ~(trace[i].at > maxPollTimeMs)
        /\ ~(i = Len(trace) /\ pc = "IterationCapExceeded")}

\* change checks that found a clean workspace
NoChangeCycles ==
    {i \in Calls("git") : trace[i].res.ok /\ Trim(trace[i].proc.stdout) = <<>>}

\* C15 as stated: a cycle in which the agent ran and the change check found
\* no changes does not count against the cap, so at every cap check the
\* counter is the number of failure passes less the no-change cycles.
C15_NoChangeCyclesNotCounted ==
    pc = "CheckingBudget"
    => workIterationCount = Cardinality(FailurePasses) - Cardinality(NoChangeCycles)

\* C15 as amended: the counter increases by exactly one for each failure
\* observation that passes the cap check and by nothing else; a pending
\* cycle leaves it unchanged, and a cycle whose change check found no
\* changes counts against the cap like any other attempt.
C15_CounterCountsEveryAttempt ==
    [][ /\ workIterationCount' = Cardinality(FailurePasses)'
        /\ workIterationCount' - workIterationCount =
               Cardinality(FailurePasses)' - Cardinality(FailurePasses)
        /\ workIterationCount' \in {workIterationCount, workIterationCount + 1}
        /\ pc' \in {"PendingSleep", "NoChangeSleep"}
               => workIterationCount' = workIterationCount ]_vars

C15_Witness ==
    /\ pc = "CheckingBudget"
    /\ NoChangeCycles # {}
    /\ Calls("publish") = {}
    /\ workIterationCount = Cardinality(NoChangeCycles)
    /\ \E i \in Calls("status") : StatusWas(i, "pending")

\* C16: in a failure cycle where the agent ran and the change check found no
\* changes, the record appended has workedOn = true, publish is skipped and
\* the run sleeps one poll interval.
C16_NoChangeRecordWorkedOn ==
    pc = "NoChangeSleep"
    => /\ trace[Len(trace)].op = "git"
       /\ iterations # <<>>
       /\ iterations[Len(iterations)].status = "failure"
       /\ iterations[Len(iterations)].workedOn = TRUE

\* C17: the iteration list is append-only (each step leaves it unchanged or
\* appends one record) and its timestamps are non-decreasing in list order.
C17_IterationsAppendOnly ==
    [][ /\ \/ iterations' = iterations
           \/ /\ Len(iterations') = Len(iterations) + 1
              /\ SubSeq(iterations', 1, Len(iterations)) = iterations
        /\ \A i, j \in DOMAIN iterations' :
               i <= j => iterations'[i].timestamp <= iterations'[j].timestamp ]_vars

C17_Witness ==
    /\ Len(iterations) >= 3
    /\ iterations[1].timestamp < iterations[2].timestamp
    /\ iterations[2].timestamp < iterations[3].timestamp

\* C18: the CLI exits with code 0 exactly when the run returned finalStatus
\* = success, and with code 1 on iteration-cap termination, on any run or
\* configuration error and on budget termination with another final status.
C18_ExitCode ==
    pc \in Terminal \cup {"ConfigFailed"}
    => LET code == startActionExitCode(outcome) IN
       /\ code \in {0, 1}
       /\ code = 0 <=> (outcome.kind = "returned"
                          /\ outcome.value.finalStatus = "success")
       /\ pc \in {"IterationCapExceeded", "Raised", "ConfigFailed"} => code = 1
       /\ (pc = "BudgetExceeded" /\ outcome.value.finalStatus # "success")
              => code = 1

C18_Witness ==
    /\ pc = "BudgetExceeded"
    /\ outcome.value.finalStatus = "pending"
    /\ ~outcome.value.maxIterationsReached
    /\ startActionExitCode(outcome) = 1

\* the text has a word of the keyword class
HasWord(in, kw) == \E i \in DOMAIN in.words : in.words[i].kw = kw

\* the text has the words "in" and "progress" next to each other
HasInProgress(in) ==
    \E i \in 1..(Len(in.words) - 1) :
        /\ ToLowerCase(in.words[i].w) = W_in
        /\ ToLowerCase(in.words[i+1].w) = W_progress
        /\ Len(in.seps[i]) = 1

C20_OnlyFailureWords ==
    (/\ pc = "Classified"
     /\ HasWord(input, "failure")
     /\ ~HasWord(input, "success")
     /\ ~HasWord(input, "pending")
     /\ ~HasInProgress(input))
    => parsed = "failure"

C20_Witness ==
    /\ pc = "Classified"
    /\ input = Sample_failed
    /\ parsed = "failure"

\* C21: parseBuildStatus is total: every text is classified success, failure
\* or pending, and a text with no success keyword and no failure keyword as
\* a whole word, the empty text included, is classified pending.
C21_TotalDefaultsToPending ==
    pc = "Classified"
    => /\ parsed \in {"success", "failure", "pending"}
       /\ (\A i \in DOMAIN input.words :
               input.words[i].kw \notin {"success", "failure"})
              => parsed = "pending"

C21_Witness ==
    /\ pc = "Classified"
    /\ Text(input) = <<>>
    /\ parsed = "pending"

\* C22: the text "This is not a success" is not classified success.
C22_NegatedPhraseNotSuccess ==
    (pc = "Classified" /\ input = Sample_negated) => parsed # "success"

\* C23: every run terminates: once poll has started, the run eventually
\* returns a RunResult or raises an error, whatever the build statuses are
\* (pending forever included).
C23_RunTerminates == (pc = "CheckingBudget") ~> (pc \in Terminal)

C23_Witness ==
    /\ pc = "BudgetExceeded"
    /\ Len(iterations) >= 2
    /\ \A i \in DOMAIN iterations : iterations[i].status = "pending"
    /\ outcome.value.finalStatus = "pending"
    /\ workIterationCount = 0

\* the operation at i is still in flight after its call has ended
LeftRunning(i) ==
    IF trace[i].op = "agent" THEN trace[i].res.sessionRunning
    ELSE trace[i].child.running

\* C24: within one run at most one external operation is in flight at any
\* time: every call starts when the call before it has ended (so after every
\* earlier call), and no earlier call has left its process or its agent
\* session running.
C24_OneOperationInFlight ==
    /\ \A i \in DOMAIN trace : trace[i].at <= trace[i].until
    /\ \A i \in 1..(Len(trace) - 1) :
          /\ trace[i].until <= trace[i+1].at
          /\ ~LeftRunning(i)

C24_Witness ==
    \E i \in Calls("extract") :
        /\ trace[i].proc.timedOut
        /\ i + 2 <= Len(trace)
        /\ trace[i+1].op = "agent"
        /\ trace[i+1].until > trace[i+1].at
        /\ trace[i+2].op = "git"
        /\ trace[i+2].at = trace[i+1].until

\* C25: after every call of execute or executeWithArgs, on every exit path,
\* the spawned process is no longer running.
C25_ProcessGoneAfterCall ==
    pc = "Executed" => ~outcome.child.running

C25_Witness ==
    /\ pc = "Executed"
    /\ input.api = "executeWithArgs"
    /\ input.proc.timedOut
    /\ ~outcome.exit.ok
    /\ outcome.child.killed
    /\ ~outcome.child.running

\* C26: when the agent does not finish within its timeout, work fails with a
\* ClaudeWorkerError and the agent session is no longer running.
C26_TimeoutEndsSession ==
    (pc = "Worked" /\ outcome.exit.sessionStarted /\ input.session = "hangs")
    => /\ ~outcome.exit.ok
       /\ outcome.exit.error._tag = "ClaudeWorkerError"
       /\ ~outcome.exit.sessionRunning

\* t is s without its leading and trailing white space
IsTrimOf(t, s) ==
    /\ t # <<>> => t[1] \notin WhiteChars /\ t[Len(t)] \notin WhiteChars
    /\ \E a \in 0..Len(s) :
          /\ a + Len(t) <= Len(s)
          /\ SubSeq(s, a + 1, a + Len(t)) = t
          /\ \A k \in (1..a) \cup ((a + Len(t) + 1)..Len(s)) : s[k] \in WhiteChars

\* C27: execute succeeds exactly when the process exits with code 0 within
\* the timeout, and then returns the trimmed stdout and stderr with exitCode
\* 0; a non-zero exit fails with a CommandExecutionError carrying the
\* command, the exit code and the stderr as captured; a timeout fails with a
\* CommandExecutionError with exit code -1.
C27_ExecuteContract ==
    (pc = "Executed" /\ input.api = "execute")
    => LET p == input.proc
           r == outcome.exit
       IN  /\ r.ok <=> (~p.timedOut /\ p.exitCode = 0)
           /\ r.ok => /\ r.value.exitCode = 0
                       /\ IsTrimOf(r.value.stdout, p.stdout)
                       /\ IsTrimOf(r.value.stderr, p.stderr)
           /\ (~p.timedOut /\ p.exitCode # 0)
                  => r.error = [_tag |-> "CommandExecutionError",
                                command |-> input.command,
                                exitCode |-> p.exitCode, stderr |-> p.stderr]
           /\ p.timedOut => /\ r.error._tag = "CommandExecutionError"
                             /\ r.error.command = input.command
                             /\ r.error.exitCode = -1
                             /\ now = DEFAULT_COMMAND_TIMEOUT_MINUTES * 60 * 1000

C27_Witness ==
    /\ pc = "Executed"
    /\ input.api = "execute"
    /\ input.proc.exitCode = 0
    /\ input.proc.stdout = T_padded
    /\ outcome.exit.ok
    /\ outcome.exit.value.stdout = T_ok

\* the arguments have "-p" followed by a prompt
HasPromptArg(args) == \E i \in 1..(Len(args) - 1) : args[i] = "-p"

\* C28: work given args without "-p" followed by a prompt fails with a
\* ClaudeWorkerError before any agent session is started.
C28_MalformedWorkFailsEarly ==
    (pc = "Worked" /\ ~HasPromptArg(input.args))
    => /\ ~outcome.exit.ok
       /\ outcome.exit.error._tag = "ClaudeWorkerError"
       /\ ~outcome.exit.sessionStarted
       /\ ~outcome.exit.sessionRunning
       /\ now = 0

C28_Witness ==
    /\ pc = "Worked"
    /\ input.args = <<"--verbose", "-p">>
    /\ input.session = "completes"
    /\ ~outcome.exit.ok
    /\ ~outcome.exit.sessionStarted

\* the parsed value lacks a required field (commands.*, work.*)
LacksRequiredField(json) ==
    \/ json.t # "object"
    \/ \E k \in CommandKeys : json.commands[k] = "absent"
    \/ json.work.command = "absent"
    \/ json.work.args = "absent"

\* a field of the parsed value has the wrong type
HasWronglyTypedField(json) ==
    /\ json.t = "object"
    /\ \/ \E k \in CommandKeys : json.commands[k] = "number"
       \/ json.work.command = "number"
       \/ json.work.args = "number"
       \/ json.polling.t \in {"number", "string", "array"}
       \/ \E k \in PollingKeys : json.polling.fields[k].t = "string"

\* a polling number of the parsed value is zero or negative
HasNonPositivePollingNumber(json) ==
    /\ json.t = "object"
    /\ \E k \in PollingKeys :
          /\ json.polling.fields[k].t = "number"
          /\ json.polling.fields[k].n <= 0
          /\ ~json.polling.fields[k].half

\* C29: loadFrom fails with ConfigNotFoundError (with the path) for a file
\* that does not exist, with ConfigParseError for content that is no JSON,
\* with ConfigValidationError for a parsed value that lacks required fields,
\* has a wrongly typed field or a non-positive polling number, and returns a
\* config only when all three checks pass.
C29_LoadFromErrors ==
    pc = "Loaded"
    => LET r == outcome.exit
           Fails(tag) == /\ ~r.ok
                         /\ r.kind = "failure"
                         /\ r.error = ConfigError(tag, "plod.config.json")
           parsedOk == input.stat = "present" /\ input.readable
                          /\ input.json.t # "invalid"
       IN  /\ input.stat = "absent" => Fails("ConfigNotFoundError")
           /\ (input.stat = "present" /\ input.readable /\ input.json.t = "invalid")
                  => Fails("ConfigParseError")
           /\ (parsedOk /\ (\/ LacksRequiredField(input.json)
                             \/ HasWronglyTypedField(input.json)
                             \/ HasNonPositivePollingNumber(input.json)))
                  => Fails("ConfigValidationError")
           /\ r.ok => /\ parsedOk
                       /\ decodes(input.json)

\* C30: the orchestrator never runs with an unvalidated configuration: poll
\* starts only when loading has succeeded, no run command is executed before
\* that, and after a failed load nothing more happens.
C30_NoRunWithoutValidConfig ==
    [][ /\ pc = "LoadingConfig"
            => /\ trace' = <<>>
               /\ pc' \in {"CheckingBudget", "ConfigFailed"}
               /\ pc' = "CheckingBudget" <=> outcome' = Running
               /\ pc' = "ConfigFailed" <=> outcome'.kind = "configFailed"
        /\ Len(trace') > Len(trace)
            => /\ pc \notin {"LoadingConfig", "ConfigFailed"}
               /\ outcome = Running
        /\ outcome.kind = "configFailed" => FALSE ]_vars

C30_Witness ==
    /\ pc = "ConfigFailed"
    /\ outcome.kind = "configFailed"
    /\ outcome.cause.kind = "failure"
    /\ outcome.cause.error._tag = "ConfigValidationError"
    /\ trace = <<>>

\* C37: every record of the list has workedOn = true only with status
\* failure, its iteration field is the counter at the time it was appended
\* (so the fields are non-decreasing), and a record with status success is
\* the only such record and the last of the list.
C37_RecordInvariants ==
    [][ /\ \A i \in DOMAIN iterations' :
              LET r == iterations'[i] IN
              /\ r.workedOn => r.status = "failure"
              /\ r.status \in {"success", "pending"} => r.workedOn = FALSE
              /\ r.status = "success" => i = Len(iterations')
              /\ \A j \in DOMAIN iterations' :
                    i <= j => r.iteration <= iterations'[j].iteration
        /\ Len(iterations') > Len(iterations)
              => /\ iterations'[Len(iterations')].iteration = workIterationCount
                 /\ workIterationCount' = workIterationCount ]_vars

C37_Witness ==
    /\ pc = "Succeeded"
    /\ Len(iterations) = 2
    /\ iterations[1].workedOn
    /\ iterations[1].status = "failure"
    /\ iterations[1].iteration = 1
    /\ iterations[Len(iterations)].status = "success"
    /\ iterations[Len(iterations)].iteration = 1

\* C38: for every returned RunResult, maxIterationsReached = true implies
\* finalStatus = failure and a counter equal to maxWorkIterations, and
\* finalStatus = success implies maxIterationsReached = false.
C38_ResultFlagsConsistent ==
    outcome.kind = "returned"
    => /\ outcome.value.maxIterationsReached
              => /\ outcome.value.finalStatus = "failure"
                 /\ workIterationCount = config.maxWorkIterations
       /\ outcome.value.finalStatus = "success"
              => ~outcome.value.maxIterationsReached

C38_Witness ==
    /\ outcome.kind = "returned"
    /\ outcome.value.maxIterationsReached
    /\ outcome.value.finalStatus = "failure"
    /\ config.maxWorkIterations = 1
    /\ workIterationCount = 1
    /\ Calls("publish") # {}

\* C39: whenever work returns a result, result.success is true, and the run
\* goes on to the change check after every returned result.
C39_ReturnedResultIsSuccess ==
    \A i \in Calls("agent") :
        trace[i].res.ok
        => /\ trace[i].res.value.success = TRUE
           /\ i = Len(trace) => pc = "ChangeCheck"
           /\ i < Len(trace) => trace[i+1].op = "git"

C39_Witness ==
    \E i \in Calls("agent") :
        /\ trace[i].res.ok
        /\ trace[i].res.value.success
        /\ i < Len(trace)
        /\ trace[i+1].op = "git"
        /\ trace[i+1].res.ok
        /\ Trim(trace[i+1].proc.stdout) = <<>>

\* C40: for every content of an existing, readable file, loadFrom returns a
\* config or fails with ConfigParseError or ConfigValidationError; it never
\* ends with a defect.
C40_NoDefectOnReadableFile ==
    (pc = "Loaded" /\ input.stat = "present" /\ input.readable)
    => \/ outcome.exit.ok
       \/ /\ outcome.exit.kind = "failure"
          /\ outcome.exit.error._tag \in {"ConfigParseError", "ConfigValidationError"}

\* C32 as stated: after the fixes are published the run checks the cap: if
\* it is reached the run exits with failure, otherwise it polls again.
C32_CapCheckedAfterPublish ==
    [][ pc = "PublishSleep"
        => IF CapReached
           THEN /\ pc' = "IterationCapExceeded"
                /\ outcome'.kind = "returned"
                /\ outcome'.value.finalStatus = "failure"
           ELSE pc' = "CheckingBudget" ]_vars

\* C33: in every failure cycle the counter is incremented once, then the
\* run sleeps three poll intervals, runs the extraction command, calls the
\* agent, runs the change check, runs the publish command only if there are
\* changes, and sleeps one poll interval; each step starts when the one
\* before it has ended.
C33_FailureCycleOrder ==
    /\ workIterationCount = Cardinality(FailurePasses)
    /\ \A i \in FailurePasses :
          LET interval == config.intervalSeconds * 1000 IN
          /\ i = Len(trace) => pc \in {"GraceSleep", "Extracting"}
          /\ i + 1 <= Len(trace)
                => /\ trace[i+1].op = "extract"
                   /\ trace[i+1].at = trace[i].until + 3 * interval
          /\ i + 2 <= Len(trace)
                => /\ trace[i+2].op = "agent"
                   /\ trace[i+2].at = trace[i+1].until
          /\ i + 3 <= Len(trace)
                => /\ trace[i+3].op = "git"
                   /\ trace[i+3].at = trace[i+2].until
          /\ i + 4 <= Len(trace)
                => IF Trim(trace[i+3].proc.stdout) # <<>>
                   THEN /\ trace[i+4].op = "publish"
                        /\ trace[i+4].at = trace[i+3].until
                   ELSE /\ trace[i+4].op = "status"
                        /\ trace[i+4].at = trace[i+3].until + interval
          /\ (i + 5 <= Len(trace) /\ trace[i+4].op = "publish")
                => /\ trace[i+5].op = "status"
                   /\ trace[i+5].at = trace[i+4].until + interval
    /\ \A j \in DOMAIN trace :
          /\ trace[j].op = "extract" => j - 1 \in FailurePasses
          /\ trace[j].op = "agent" => trace[j-1].op = "extract"
          /\ trace[j].op = "git" => trace[j-1].op = "agent"
          /\ trace[j].op = "publish" => trace[j-1].op = "git"

C33_Witness ==
    \E i \in FailurePasses :
        /\ i + 5 <= Len(trace)
        /\ trace[i+1].at = trace[i].until + 3 * config.intervalSeconds * 1000
        /\ trace[i+2].until > trace[i+2].at
        /\ trace[i+4].op = "publish"
        /\ trace[i+5].op = "status"
        /\ trace[i+5].at = trace[i+4].until + config.intervalSeconds * 1000

\* C34: the elapsed time is compared with the budget only at the start of a
\* cycle and strictly: no step inside a cycle ends the run by budget, a cycle
\* that starts with elapsed = budget is a regular cycle, and a check that
\* finds the budget exceeded is followed by one status check and nothing
\* more.
C34_BudgetCheckedAtCycleStart ==
    [][ /\ pc' = "BudgetExceeded"
            => pc = "CheckingBudget" /\ now > maxPollTimeMs
        /\ (pc = "CheckingBudget" /\ now > maxPollTimeMs)
            => /\ Len(trace') = Len(trace) + 1
               /\ trace'[Len(trace')].op = "status"
               /\ pc' \in {"BudgetExceeded", "Raised"}
               /\ iterations' = iterations
        /\ (pc = "CheckingBudget" /\ now <= maxPollTimeMs)
            => /\ pc' \in {"Succeeded", "PendingSleep", "GraceSleep",
                             "IterationCapExceeded", "Raised"}
               /\ outcome'.kind = "returned"
                      => outcome'.value.maxIterationsReached
                            \/ outcome'.value.finalStatus = "success"
        /\ pc \in {"BudgetExceeded", "Raised"} => FALSE ]_vars

C34_Witness ==
    /\ pc = "BudgetExceeded"
    /\ \E i \in Calls("status") :
          /\ trace[i].at = maxPollTimeMs
          /\ i + 4 < Len(trace)
          /\ trace[i+1].op = "extract"
          /\ trace[i+4].op = "publish"
          /\ trace[i+4].at > maxPollTimeMs
    /\ trace[Len(trace)].op = "status"

\* C35: one record is appended per loop pass: for every returned RunResult
\* the number of records is the number of loop passes of the run, the
\* terminating pass included (every pass makes one status check).
C35_OneRecordPerPass ==
    outcome.kind = "returned"
    => Len(outcome.value.iterations) = Cardinality(Calls("status"))

\* C35 as amended: at most one record is appended per loop pass.  A pass
\* that ends the run by success appends one, as does every pass that does
\* not end the run; a pass that ends the run by budget or by the cap appends
\* none.  So a RunResult returned on success has as many records as the run
\* made passes, and one returned on budget or cap has one less.
C35_RecordsPerPass ==
    [][ /\ Len(iterations') - Len(iterations) \in {0, 1}
        /\ \A i \in DOMAIN iterations : iterations'[i] = iterations[i]
        /\ outcome'.kind = "returned"
            => /\ outcome'.value.iterations = iterations'
               /\ Len(iterations') =
                     Cardinality({i \in DOMAIN trace' : trace'[i].op = "status"})
                        - (IF pc' = "Succeeded" THEN 0 ELSE 1)
               /\ Len(iterations') - Len(iterations)
                     = (IF pc' = "Succeeded" THEN 1 ELSE 0) ]_vars

C35_Witness ==
    /\ pc = "IterationCapExceeded"
    /\ outcome.kind = "returned"
    /\ Cardinality(Calls("status")) = 2
    /\ Len(outcome.value.iterations) = 1
    /\ outcome.value.iterations[1].status = "failure"

\* the records with workedOn = true
WorkedOnRecords == {i \in DOMAIN iterations : iterations[i].workedOn}

\* every publish call directly follows a change check that found changes
PublishFollowsChanges ==
    \A i \in Calls("publish") :
        /\ i > 1
        /\ trace[i-1].op = "git"
        /\ trace[i-1].res.ok
        /\ Trim(trace[i-1].proc.stdout) # <<>>

\* C36 as stated: in every reachable state the number of publish calls is
\* the number of records with workedOn = true, each publish follows a
\* change check that found changes, and publish calls <= agent calls <=
\* counter.
C36_PublishEqualsWorkedOn ==
    /\ Cardinality(Calls("publish")) = Cardinality(WorkedOnRecords)
    /\ PublishFollowsChanges
    /\ Cardinality(Calls("publish")) <= Cardinality(Calls("agent"))
    /\ Cardinality(Calls("agent")) <= workIterationCount

\* C36 as amended: the number of publish calls is the number of records
\* with workedOn = true, except between the push of such a record and the
\* publish call of the same cycle, where it is one less; each publish
\* follows a change check that found changes, and publish calls <= agent
\* calls <= counter.
C36_PublishFollowsWorkedOnRecord ==
    /\ Cardinality(WorkedOnRecords) =
           Cardinality(Calls("publish")) + (IF pc = "Publishing" THEN 1 ELSE 0)
    /\ PublishFollowsChanges
    /\ Cardinality(Calls("publish")) <= Cardinality(Calls("agent"))
    /\ Cardinality(Calls("agent")) <= workIterationCount

C36_Witness ==
    /\ pc = "CheckingBudget"
    /\ Cardinality(Calls("publish")) = 1
    /\ Cardinality(WorkedOnRecords) = 1
    /\ Cardinality(Calls("agent")) = 1
    /\ trace[Len(trace)].op = "publish"

\* C31: a run started from a configuration file with polling.maxIterations
\* = N makes at most N remediation attempts: the counter and the number of
\* agent calls never exceed N.
C31_MaxIterationsBoundsAttempts ==
    input.json.polling.fields["maxIterations"].t = "number"
    => /\ workIterationCount <= input.json.polling.fields["maxIterations"].n
       /\ Cardinality(Calls("agent")) <= input.json.polling.fields["maxIterations"].n

====
